---- MODULE Spec2Model ----
(***************************************************************************)
(* Model of oc_client_provider/app/routes.py: the response encoders        *)
(* (response_json, response_csv), the argument normalizer                  *)
(* (_adjust_arguments) and the seven route handlers.                       *)
(*                                                                         *)
(* Python values are tagged records [t, v]:                                *)
(*   none, bool, int, str (a TLA+ string), list (a sequence of values),    *)
(*   dict (a sequence of <<key, value>> pairs in insertion order, keys      *)
(*   being strings).                                                       *)
(* The collaborators (ClientGetter, ClientCounterparty, ClientTF) are not  *)
(* part of the module: every call to one, the construction of             *)
(* ClientCounterparty() and ClientTF() inside a handler included, is a     *)
(* nondeterministic outcome, either Return(value) or Raise(exception).     *)
(* calls holds the method calls of the request, built the outcome of the   *)
(* constructor the handler ran.                                            *)
(***************************************************************************)
EXTENDS Integers, Sequences, FiniteSets, TLC

VARIABLES req, calls, built, resp, hist, fin, fout

vars == <<req, calls, built, resp, hist, fin, fout>>

(***************************************************************************)
(* Bounds of the model.                                                    *)
(***************************************************************************)
\* requests served in one behaviour
MaxRequests == 2
\* length of the strings given to _adjust_arguments
MaxStrLen == 3
\* how many times _adjust_arguments is applied to its own output
MaxApply == 2
\* records in a list given to response_csv
MaxRecords == 2
\* elements of a list given to response_json
MaxListLen == 2

(***************************************************************************)
(* Python values.                                                          *)
(***************************************************************************)
PyNone == [t |-> "none", v |-> 0]
PyBool(b) == [t |-> "bool", v |-> b]
PyInt(n) == [t |-> "int", v |-> n]
PyStr(s) == [t |-> "str", v |-> s]
PyList(items) == [t |-> "list", v |-> items]
PyDict(pairs) == [t |-> "dict", v |-> pairs]
PyTuple(items) == [t |-> "tuple", v |-> items]
PyFloat(f) == [t |-> "float", v |-> f]

\* The floats.  A finite float is its sign, the digits of its shortest repr
\* without leading and trailing zeros, and the place pt of the decimal point:
\* 0.digits * 10^pt.  Zero has no digits.
Finite(neg, digits, pt) == [k |-> "finite", neg |-> neg, digits |-> digits, pt |-> pt]
FloatZero(neg) == Finite(neg, "", 0)
Infinity(neg) == [k |-> "inf", neg |-> neg, digits |-> "", pt |-> 0]
NaN == [k |-> "nan", neg |-> FALSE, digits |-> "", pt |-> 0]

\* isinstance(x, str)
IsStr(x) == x.t = "str"

\* isinstance(x, list)
IsList(x) == x.t = "list"

\* Python truth value of x (what `not x` negates)
Truthy(x) ==
    CASE x.t = "none" -> FALSE
      [] x.t = "bool" -> x.v
      [] x.t = "int"  -> x.v # 0
      [] x.t = "float" -> x.v # FloatZero(TRUE) /\ x.v # FloatZero(FALSE)
      [] x.t = "str"  -> x.v # ""
      [] x.t = "list" -> x.v # <<>>
      [] x.t = "tuple" -> x.v # <<>>
      [] x.t = "dict" -> x.v # <<>>

\* x or y
PyOr(x, y) == IF Truthy(x) THEN x ELSE y

\* the keys of a dict, in insertion order
Keys(d) == [i \in 1..Len(d.v) |-> d.v[i][1]]

HasKey(d, k) == \E i \in 1..Len(d.v) : d.v[i][1] = k

\* d.get(k, default)
DictGet(d, k, default) ==
    IF HasKey(d, k)
    THEN d.v[CHOOSE i \in 1..Len(d.v) : d.v[i][1] = k][2]
    ELSE default

\* the outcome of a call: a returned value or a raised exception
Return(x) == [kind |-> "return", v |-> x]
Raise(e) == [kind |-> "raise", v |-> e]

(***************************************************************************)
(* Strings.                                                                *)
(***************************************************************************)
CharAt(s, i) == SubSeq(s, i, i)

\* c in s, for a character c
HasChar(s, c) == \E i \in 1..Len(s) : CharAt(s, i) = c

\* The characters a string of the model holds, in code point order: U+0001 to
\* U+00FF without the grave accent U+0060, which no TLA+ string can hold.
\* U+0001 to U+001F
Controls == "\t\n\f\r"
\* U+0020 to U+007E without U+0060
Printable == " !\"#$%&'()*+,-./0123456789:;<=>?@ABCDEFGHIJKLMNOPQRSTUVWXYZ[\\]^_"
             \o "abcdefghijklmnopqrstuvwxyz{|}~"
\* U+007F to U+00FF
High == " "
        \o "¡¢£¤¥¦§¨©ª«¬­®¯°±²³´µ¶·¸¹º»¼½¾¿ÀÁÂÃÄÅÆÇÈÉÊËÌÍÎÏÐÑÒÓÔÕÖ×ØÙÚÛÜÝÞßàáâãäåæçèéêëìíîïðñòóôõö÷øùúûüýþÿ"
Chars == Controls \o Printable \o High

\* the characters of a string, as a set
CharSet(s) == {CharAt(s, i) : i \in 1..Len(s)}
ControlChars == CharSet(Controls)
PrintableChars == CharSet(Printable)

\* chr(n), for the code points of Chars
Chr(n) ==
    CASE n > 0 /\ n < 96   -> CharAt(Chars, n)
      [] n > 96 /\ n < 256 -> CharAt(Chars, n - 1)

\* ord(c)
Ord(c) ==
    LET i == CHOOSE j \in 1..Len(Chars) : CharAt(Chars, j) = c
    IN  IF i < 96 THEN i ELSE i + 1

HexDigits == "0123456789abcdef"

\* "%02x" % n
Hex2(n) == CharAt(HexDigits, (n \div 16) + 1) \o CharAt(HexDigits, (n % 16) + 1)

\* the characters str.strip() removes: those str.isspace() holds for
IsSpace(c) ==
    \/ c \in {" ", "\t", "\n", "\r", "\f"}
    \/ c \in {Chr(11), Chr(28), Chr(29), Chr(30), Chr(31), Chr(133), Chr(160)}

RECURSIVE LStrip(_)
LStrip(s) ==
    IF s = "" THEN ""
    ELSE IF IsSpace(Head(s)) THEN LStrip(Tail(s)) ELSE s

RECURSIVE RStrip(_)
RStrip(s) ==
    IF s = "" THEN ""
    ELSE IF IsSpace(CharAt(s, Len(s)))
         THEN RStrip(SubSeq(s, 1, Len(s) - 1))
         ELSE s

\* s.strip()
Strip(s) == RStrip(LStrip(s))

\* s.replace(old, new) for a one-character old
RECURSIVE Replace(_, _, _)
Replace(s, old, new) ==
    IF s = "" THEN ""
    ELSE (IF Head(s) = old THEN new ELSE Head(s)) \o Replace(Tail(s), old, new)

Upper == "ABCDEFGHIJKLMNOPQRSTUVWXYZ"
Lower == "abcdefghijklmnopqrstuvwxyz"

\* the characters of Chars outside ASCII that str.lower() changes
UpperLatin == "ÀÁÂÃÄÅÆÇÈÉÊËÌÍÎÏÐÑÒÓÔÕÖØÙÚÛÜÝÞ"

\* c.lower(): every cased character of Chars is 32 below its lower case
LowerChar(c) ==
    IF HasChar(Upper, c) \/ HasChar(UpperLatin, c) THEN Chr(Ord(c) + 32) ELSE c

\* s.lower()
RECURSIVE ToLower(_)
ToLower(s) ==
    IF s = "" THEN "" ELSE LowerChar(Head(s)) \o ToLower(Tail(s))

Digits == "0123456789"

RECURSIVE NatToStr(_)
NatToStr(n) ==
    IF n < 10 THEN CharAt(Digits, n + 1)
    ELSE NatToStr(n \div 10) \o CharAt(Digits, (n % 10) + 1)

\* str(n) of an int
IntToStr(n) == IF n < 0 THEN "-" \o NatToStr(0 - n) ELSE NatToStr(n)

\* n zeros
RECURSIVE Zeros(_)
Zeros(n) == IF n <= 0 THEN "" ELSE "0" \o Zeros(n - 1)

\* repr(f) of a float: the shortest digits that give f back, with an exponent
\* when the decimal point lies more than 16 places right or 3 places left of
\* the first digit
FloatRepr(f) ==
    LET sign == IF f.neg THEN "-" ELSE ""
        n == Len(f.digits)
        e == f.pt - 1
    IN  CASE f.k = "nan" -> "nan"
          [] f.k = "inf" -> sign \o "inf"
          [] f.k = "finite" /\ n = 0 -> sign \o "0.0"
          [] f.k = "finite" /\ n > 0 /\ (f.pt > 16 \/ f.pt <= -4) ->
                sign \o Head(f.digits)
                \o (IF n > 1 THEN "." \o Tail(f.digits) ELSE "")
                \o "e" \o (IF e < 0 THEN "-" ELSE "+")
                \o (IF e > -10 /\ e < 10 THEN "0" ELSE "")
                \o NatToStr(IF e < 0 THEN 0 - e ELSE e)
          [] f.k = "finite" /\ n > 0 /\ f.pt > -4 /\ f.pt <= 0 ->
                sign \o "0." \o Zeros(0 - f.pt) \o f.digits
          [] f.k = "finite" /\ n > 0 /\ f.pt > 0 /\ f.pt < n ->
                sign \o SubSeq(f.digits, 1, f.pt) \o "." \o SubSeq(f.digits, f.pt + 1, n)
          [] f.k = "finite" /\ n > 0 /\ f.pt >= n /\ f.pt <= 16 ->
                sign \o f.digits \o Zeros(f.pt - n) \o ".0"

\* str(x), as "%s" % x and csv's writer format a scalar
PyToStr(x) ==
    CASE x.t = "none" -> "None"
      [] x.t = "bool" -> (IF x.v THEN "True" ELSE "False")
      [] x.t = "int"  -> IntToStr(x.v)
      [] x.t = "float" -> FloatRepr(x.v)
      [] x.t = "str"  -> x.v

(***************************************************************************)
(* repr of a string and exceptions.                                        *)
(***************************************************************************)
\* str.isprintable() of a character: false for U+0001 to U+001F, U+007F to
\* U+00A0 and U+00AD
IsPrintable(c) ==
    \/ c \in PrintableChars
    \/ c \notin PrintableChars /\ Ord(c) > 160 /\ Ord(c) # 173

\* how repr writes one character of a string quoted with q
ReprChar(c, q) ==
    CASE c = "\\" -> "\\\\"
      [] c = q    -> "\\" \o q
      [] c = "\n" -> "\\n"
      [] c = "\r" -> "\\r"
      [] c = "\t" -> "\\t"
      [] c \notin {"\\", q, "\n", "\r", "\t"} /\ IsPrintable(c) -> c
      [] OTHER    -> "\\x" \o Hex2(Ord(c))

RECURSIVE ReprChars(_, _)
ReprChars(s, q) ==
    IF s = "" THEN "" ELSE ReprChar(Head(s), q) \o ReprChars(Tail(s), q)

\* repr(s) of a str: in single quotes, unless s holds a single quote and no
\* double quote
StrRepr(s) ==
    LET q == IF HasChar(s, "'") /\ ~HasChar(s, "\"") THEN "\"" ELSE "'"
    IN  q \o ReprChars(s, q) \o q

\* an exception: its class and its single string argument
Exc(cls, msg) == [cls |-> cls, msg |-> msg]

\* str(e) of an exception with one string argument: the argument, but its
\* repr for a KeyError
ExcStr(e) == IF e.cls = "KeyError" THEN StrRepr(e.msg) ELSE e.msg

\* repr(e) of an exception with one string argument
ExcRepr(e) == e.cls \o "(" \o StrRepr(e.msg) \o ")"

(***************************************************************************)
(* json.dumps and json.loads, on the values above.                         *)
(***************************************************************************)
\* how json.dumps writes one character of a string: the characters from the
\* space to ~ as they are, but for " and \; the others escaped
JsonEscapeChar(c) ==
    CASE c = "\"" -> "\\\""
      [] c = "\\" -> "\\\\"
      [] c = "\n" -> "\\n"
      [] c = "\r" -> "\\r"
      [] c = "\t" -> "\\t"
      [] c = "\f" -> "\\f"
      [] c \notin {"\"", "\\"} /\ c \in PrintableChars -> c
      [] c = Chr(8) -> "\\b"
      [] OTHER    -> "\\u00" \o Hex2(Ord(c))

RECURSIVE JsonEscape(_)
JsonEscape(s) ==
    IF s = "" THEN "" ELSE JsonEscapeChar(Head(s)) \o JsonEscape(Tail(s))

JsonQuote(s) == "\"" \o JsonEscape(s) \o "\""

\* how json.dumps writes a float: its repr, but its own names for the
\* values that are no numbers of JSON
DumpsFloat(f) ==
    CASE f.k = "nan" -> "NaN"
      [] f.k = "inf" -> (IF f.neg THEN "-Infinity" ELSE "Infinity")
      [] f.k = "finite" -> FloatRepr(f)

RECURSIVE Dumps(_), DumpsList(_), DumpsPairs(_)
\* json.dumps(x), with the default separators ", " and ": "; a tuple is
\* written as a list
Dumps(x) ==
    CASE x.t = "none" -> "null"
      [] x.t = "bool" -> (IF x.v THEN "true" ELSE "false")
      [] x.t = "int"  -> IntToStr(x.v)
      [] x.t = "float" -> DumpsFloat(x.v)
      [] x.t = "str"  -> JsonQuote(x.v)
      [] x.t \in {"list", "tuple"} -> "[" \o DumpsList(x.v) \o "]"
      [] x.t = "dict" -> "{" \o DumpsPairs(x.v) \o "}"

DumpsList(items) ==
    IF items = <<>> THEN ""
    ELSE Dumps(Head(items))
         \o (IF Len(items) > 1 THEN ", " \o DumpsList(Tail(items)) ELSE "")

DumpsPairs(pairs) ==
    IF pairs = <<>> THEN ""
    ELSE JsonQuote(Head(pairs)[1]) \o ": " \o Dumps(Head(pairs)[2])
         \o (IF Len(pairs) > 1 THEN ", " \o DumpsPairs(Tail(pairs)) ELSE "")

\* a parse result: ok, the value and the position after it
Parsed(x, i) == [ok |-> TRUE, v |-> x, pos |-> i]
ParseFail == [ok |-> FALSE, v |-> PyNone, pos |-> 0]

IsDigit(c) == \E i \in 1..10 : CharAt(Digits, i) = c
DigitVal(c) == (CHOOSE i \in 1..10 : CharAt(Digits, i) = c) - 1

\* the position of the first character at or after i that is not JSON whitespace
RECURSIVE SkipWs(_, _)
SkipWs(s, i) ==
    IF i <= Len(s) /\ CharAt(s, i) \in {" ", "\t", "\n", "\r"}
    THEN SkipWs(s, i + 1)
    ELSE i

\* the position after the digits that start at i
RECURSIVE DigitsEnd(_, _)
DigitsEnd(s, i) ==
    IF i <= Len(s) /\ IsDigit(CharAt(s, i)) THEN DigitsEnd(s, i + 1) ELSE i

\* int(s) of a string of digits
RECURSIVE ToNat(_)
ToNat(s) ==
    IF s = "" THEN 0
    ELSE ToNat(SubSeq(s, 1, Len(s) - 1)) * 10 + DigitVal(CharAt(s, Len(s)))

\* s without its leading zeros, and without its trailing zeros
RECURSIVE StripLeadZeros(_)
StripLeadZeros(s) ==
    IF s # "" /\ Head(s) = "0" THEN StripLeadZeros(Tail(s)) ELSE s

RECURSIVE StripTrailZeros(_)
StripTrailZeros(s) ==
    IF s # "" /\ CharAt(s, Len(s)) = "0"
    THEN StripTrailZeros(SubSeq(s, 1, Len(s) - 1))
    ELSE s

\* a <= b for two strings of digits of one length
RECURSIVE DigitsLeq(_, _)
DigitsLeq(a, b) ==
    IF a = "" THEN TRUE
    ELSE IF Head(a) = Head(b) THEN DigitsLeq(Tail(a), Tail(b))
    ELSE DigitVal(Head(a)) < DigitVal(Head(b))

\* sys.float_info.dig: a decimal of so many digits is the shortest repr of
\* the float nearest to it
FloatDig == 15

\* the first FloatDig digits of sys.float_info.max, 1.7976931348623157e+308
MaxFloatDigits == "179769313486231"

\* float(text) of the decimal 0.digits * 10^pt, digits without leading and
\* trailing zeros: infinite above sys.float_info.max, zero below half the
\* least float 5e-324.  Defined for at most FloatDig digits, and not in the
\* reduced precision below 1e-307.
ToFloat(neg, digits, pt) ==
    CASE digits = "" -> FloatZero(neg)
      [] digits # "" /\ pt > 309 -> Infinity(neg)
      [] digits # "" /\ pt <= -324 -> FloatZero(neg)
      [] digits # "" /\ Len(digits) <= FloatDig /\ pt = 309 ->
            IF DigitsLeq(digits \o Zeros(FloatDig - Len(digits)), MaxFloatDigits)
            THEN Finite(neg, digits, pt)
            ELSE Infinity(neg)
      [] digits # "" /\ Len(digits) <= FloatDig /\ pt >= -306 /\ pt < 309 ->
            Finite(neg, digits, pt)

\* float(int \o "." \o frac \o "e" \o exp), as the decoder makes a number
\* that has a fraction or an exponent
FloatOf(neg, int, frac, exp) ==
    LET all == int \o frac
        lead == Len(all) - Len(StripLeadZeros(all))
    IN  ToFloat(neg, StripTrailZeros(StripLeadZeros(all)), Len(int) - lead + exp)

\* a number -?(0|[1-9][0-9]*)(\.[0-9]+)?([eE][-+]?[0-9]+)? at i: a float when
\* it has a fraction or an exponent, an int otherwise
ParseNumber(s, i) ==
    LET neg == CharAt(s, i) = "-"
        j == IF neg THEN i + 1 ELSE i
        p == IF CharAt(s, j) = "0" THEN j + 1 ELSE DigitsEnd(s, j)
        int == SubSeq(s, j, p - 1)
        hasFrac == p + 1 <= Len(s) /\ CharAt(s, p) = "." /\ IsDigit(CharAt(s, p + 1))
        q == IF hasFrac THEN DigitsEnd(s, p + 1) ELSE p
        frac == IF hasFrac THEN SubSeq(s, p + 1, q - 1) ELSE ""
        signed == q + 1 <= Len(s) /\ CharAt(s, q + 1) \in {"+", "-"}
        d == IF signed THEN q + 2 ELSE q + 1
        hasExp == /\ q <= Len(s) /\ CharAt(s, q) \in {"e", "E"}
                  /\ d <= Len(s) /\ IsDigit(CharAt(s, d))
        r == IF hasExp THEN DigitsEnd(s, d) ELSE q
        mag == ToNat(SubSeq(s, d, r - 1))
        exp == IF ~hasExp THEN 0
               ELSE IF CharAt(s, q + 1) = "-" THEN 0 - mag ELSE mag
    IN  IF j > Len(s) \/ ~IsDigit(CharAt(s, j)) THEN ParseFail
        ELSE IF hasFrac \/ hasExp
             THEN Parsed(PyFloat(FloatOf(neg, int, frac, exp)), r)
             ELSE Parsed(PyInt(IF neg THEN 0 - ToNat(int) ELSE ToNat(int)), p)

HexVal(c) ==
    IF IsDigit(c) THEN DigitVal(c)
    ELSE 9 + (CHOOSE k \in 1..6 : c \in {CharAt("abcdef", k), CharAt("ABCDEF", k)})

IsHex(c) == IsDigit(c) \/ HasChar("abcdefABCDEF", c)

\* the code of the four hexadecimal digits at i, or -1 when there are no four
Hex4At(s, i) ==
    IF i + 3 <= Len(s) /\ \A k \in 0..3 : IsHex(CharAt(s, i + k))
    THEN HexVal(CharAt(s, i)) * 4096 + HexVal(CharAt(s, i + 1)) * 256
         + HexVal(CharAt(s, i + 2)) * 16 + HexVal(CharAt(s, i + 3))
    ELSE -1

\* the rest of a string literal whose opening quote precedes i; an escape
\* \uXXXX gives the character of that code, which Chr has up to U+00FF
RECURSIVE ParseString(_, _, _)
ParseString(s, i, acc) ==
    IF i > Len(s) THEN ParseFail
    ELSE LET c == CharAt(s, i)
         IN  CASE c = "\"" -> Parsed(PyStr(acc), i + 1)
               [] c = "\\" ->
                    IF i + 1 > Len(s) THEN ParseFail
                    ELSE LET e == CharAt(s, i + 1)
                         IN  CASE e = "\"" -> ParseString(s, i + 2, acc \o "\"")
                               [] e = "\\" -> ParseString(s, i + 2, acc \o "\\")
                               [] e = "/"  -> ParseString(s, i + 2, acc \o "/")
                               [] e = "n"  -> ParseString(s, i + 2, acc \o "\n")
                               [] e = "r"  -> ParseString(s, i + 2, acc \o "\r")
                               [] e = "t"  -> ParseString(s, i + 2, acc \o "\t")
                               [] e = "f"  -> ParseString(s, i + 2, acc \o "\f")
                               [] e = "b"  -> ParseString(s, i + 2, acc \o Chr(8))
                               [] e = "u"  ->
                                    IF Hex4At(s, i + 2) < 0 THEN ParseFail
                                    ELSE ParseString(s, i + 6, acc \o Chr(Hex4At(s, i + 2)))
                               [] OTHER    -> ParseFail
               [] c \notin {"\"", "\\"} /\ c \in ControlChars -> ParseFail
               [] OTHER -> ParseString(s, i + 1, acc \o c)

\* d[k] = x on a sequence of pairs: a known key keeps its place
DictSet(pairs, k, x) ==
    IF \E i \in 1..Len(pairs) : pairs[i][1] = k
    THEN [i \in 1..Len(pairs) |-> IF pairs[i][1] = k THEN <<k, x>> ELSE pairs[i]]
    ELSE Append(pairs, <<k, x>>)

RECURSIVE ParseValue(_, _), ParseElems(_, _, _), ParseMembers(_, _, _)
\* the JSON value that starts at i
ParseValue(s, i) ==
    IF i > Len(s) THEN ParseFail
    ELSE LET c == CharAt(s, i)
         IN  CASE c = "n" ->
                    IF i + 3 <= Len(s) /\ SubSeq(s, i, i + 3) = "null"
                    THEN Parsed(PyNone, i + 4) ELSE ParseFail
               [] c = "t" ->
                    IF i + 3 <= Len(s) /\ SubSeq(s, i, i + 3) = "true"
                    THEN Parsed(PyBool(TRUE), i + 4) ELSE ParseFail
               [] c = "f" ->
                    IF i + 4 <= Len(s) /\ SubSeq(s, i, i + 4) = "false"
                    THEN Parsed(PyBool(FALSE), i + 5) ELSE ParseFail
               [] c = "\"" -> ParseString(s, i + 1, "")
               [] c = "[" ->
                    LET j == SkipWs(s, i + 1)
                    IN  IF j <= Len(s) /\ CharAt(s, j) = "]"
                        THEN Parsed(PyList(<<>>), j + 1)
                        ELSE ParseElems(s, j, <<>>)
               [] c = "{" ->
                    LET j == SkipWs(s, i + 1)
                    IN  IF j <= Len(s) /\ CharAt(s, j) = "}"
                        THEN Parsed(PyDict(<<>>), j + 1)
                        ELSE ParseMembers(s, j, <<>>)
               [] c = "N" ->
                    IF i + 2 <= Len(s) /\ SubSeq(s, i, i + 2) = "NaN"
                    THEN Parsed(PyFloat(NaN), i + 3) ELSE ParseFail
               [] c = "I" ->
                    IF i + 7 <= Len(s) /\ SubSeq(s, i, i + 7) = "Infinity"
                    THEN Parsed(PyFloat(Infinity(FALSE)), i + 8) ELSE ParseFail
               [] c = "-" /\ ~ParseNumber(s, i).ok ->
                    IF i + 8 <= Len(s) /\ SubSeq(s, i, i + 8) = "-Infinity"
                    THEN Parsed(PyFloat(Infinity(TRUE)), i + 9) ELSE ParseFail
               [] (c = "-" /\ ParseNumber(s, i).ok) \/ IsDigit(c) -> ParseNumber(s, i)
               [] OTHER -> ParseFail

\* the elements of an array from i on, up to its closing bracket
ParseElems(s, i, acc) ==
    LET e == ParseValue(s, i)
    IN  IF ~e.ok THEN ParseFail
        ELSE LET j == SkipWs(s, e.pos)
             IN  IF j > Len(s) THEN ParseFail
                 ELSE IF CharAt(s, j) = "]"
                      THEN Parsed(PyList(Append(acc, e.v)), j + 1)
                      ELSE IF CharAt(s, j) = ","
                           THEN ParseElems(s, SkipWs(s, j + 1), Append(acc, e.v))
                           ELSE ParseFail

\* the members of an object from i on, up to its closing brace
ParseMembers(s, i, acc) ==
    IF i > Len(s) \/ CharAt(s, i) # "\"" THEN ParseFail
    ELSE LET k == ParseString(s, i + 1, "")
         IN  IF ~k.ok THEN ParseFail
             ELSE LET c == SkipWs(s, k.pos)
                  IN  IF c > Len(s) \/ CharAt(s, c) # ":" THEN ParseFail
                      ELSE LET e == ParseValue(s, SkipWs(s, c + 1))
                           IN  IF ~e.ok THEN ParseFail
                               ELSE LET j == SkipWs(s, e.pos)
                                        more == DictSet(acc, k.v.v, e.v)
                                    IN  IF j > Len(s) THEN ParseFail
                                        ELSE IF CharAt(s, j) = "}"
                                             THEN Parsed(PyDict(more), j + 1)
                                             ELSE IF CharAt(s, j) = ","
                                                  THEN ParseMembers(s, SkipWs(s, j + 1), more)
                                                  ELSE ParseFail

\* json.loads(s): the decoded value, or JSONDecodeError (its message is not
\* modelled).  An int is within the integers of TLC.
Loads(s) ==
    LET e == ParseValue(s, SkipWs(s, 1))
    IN  IF e.ok /\ SkipWs(s, e.pos) = Len(s) + 1
        THEN Return(e.v)
        ELSE Raise(Exc("JSONDecodeError", ""))

(***************************************************************************)
(* The response encoders.                                                  *)
(***************************************************************************)
\* flask.Response(status=, content_type=, mimetype=, response=); content_type
\* is "" where the caller does not pass it
Response(status, content_type, mimetype, body) ==
    [status |-> status, content_type |-> content_type,
     mimetype |-> mimetype, body |-> body]

\* response_json with str(data) in place of json.dumps(data); the str() of a
\* list or a mapping is taken to be its JSON text with ' for "
response_json_str(code, data) ==
    Response(code, "application/json", "application/json",
             IF data.t \in {"none", "bool", "int", "float", "str"}
             THEN PyToStr(data)
             ELSE Replace(Dumps(data), "\"", "'"))

\* response_json(code, data): a str is sent as it is, anything else is dumped
response_json(code, data) ==
    Response(code, "application/json", "application/json",
             IF IsStr(data) THEN data.v ELSE Dumps(data))

\* the text csv.writer gives a field before quoting: None is empty
CsvText(x) == IF x.t = "none" THEN "" ELSE PyToStr(x)

\* QUOTE_MINIMAL: a field holding the delimiter, the quote or a line end is quoted
CsvNeedsQuote(s) ==
    \E i \in 1..Len(s) : CharAt(s, i) \in {",", "\"", "\r", "\n"}

CsvQuoted(s) == "\"" \o Replace(s, "\"", "\"\"") \o "\""

CsvField(x) ==
    LET s == CsvText(x) IN IF CsvNeedsQuote(s) THEN CsvQuoted(s) ELSE s

RECURSIVE CsvJoin(_)
CsvJoin(fields) ==
    IF fields = <<>> THEN ""
    ELSE CsvField(Head(fields))
         \o (IF Len(fields) > 1 THEN "," \o CsvJoin(Tail(fields)) ELSE "")

\* csv.writer.writerow(fields): a lone empty field is written quoted
CsvRow(fields) ==
    (IF Len(fields) = 1 /\ CsvText(fields[1]) = ""
     THEN "\"\"" ELSE CsvJoin(fields)) \o "\r\n"

\* the arrangements of the set S as a sequence
RECURSIVE Perms(_)
Perms(S) ==
    IF S = {} THEN {<<>>}
    ELSE UNION {{<<x>> \o q : q \in Perms(S \ {x})} : x \in S}

\* the keys found in data (None, a mapping or a list of mappings)
DataKeys(data) ==
    CASE data.t = "dict" -> {data.v[i][1] : i \in 1..Len(data.v)}
      [] data.t = "list" ->
            UNION {{data.v[j].v[i][1] : i \in 1..Len(data.v[j].v)} : j \in 1..Len(data.v)}
      [] OTHER -> {}

\* wrong_fields = rowdict.keys() - fieldnames, a set: its names come in the
\* iteration order of that set, which the hash seed of the process decides;
\* order is that order, an arrangement of the keys of the data
WrongFields(headers, rowdict, order) ==
    SelectSeq(order, LAMBDA k : /\ HasKey(rowdict, k)
                                /\ \A i \in 1..Len(headers) : headers[i] # k)

RECURSIVE JoinRepr(_)
JoinRepr(keys) ==
    IF keys = <<>> THEN ""
    ELSE StrRepr(Head(keys))
         \o (IF Len(keys) > 1 THEN ", " \o JoinRepr(Tail(keys)) ELSE "")

\* csv.DictWriter._dict_to_list: rowdict.get(key, '') for every field name
DictToList(headers, rowdict) ==
    [i \in 1..Len(headers) |-> DictGet(rowdict, headers[i], PyStr(""))]

\* csv.DictWriter.writerows: the rows' text, or ValueError at the first row
\* holding a key that is no field name
RECURSIVE WriteRows(_, _, _, _)
WriteRows(headers, rows, acc, order) ==
    IF rows = <<>> THEN Return(acc)
    ELSE IF WrongFields(headers, Head(rows), order) # <<>>
         THEN Raise(Exc("ValueError",
                        "dict contains fields not in fieldnames: "
                        \o JoinRepr(WrongFields(headers, Head(rows), order))))
         ELSE WriteRows(headers, Tail(rows),
                        acc \o CsvRow(DictToList(headers, Head(rows))), order)

\* response_csv without the wrapping of a lone mapping: data[0] of a mapping
\* is a KeyError
response_csv_no_wrap(code, data, order) ==
    LET d1 == IF ~Truthy(data) THEN PyList(<<>>) ELSE data
    IN  IF ~IsList(d1) THEN Raise(Exc("KeyError", "0"))
        ELSE IF Truthy(d1)
        THEN LET headers == Keys(d1.v[1])
                 header_row == CsvRow([i \in 1..Len(headers) |-> PyStr(headers[i])])
                 written == WriteRows(headers, d1.v, header_row, order)
             IN  IF written.kind = "raise" THEN written
                 ELSE Return(Response(code, "", "text/csv", written.v))
        ELSE Return(Response(code, "", "text/csv", ""))

\* response_csv(code, data) for data None, a mapping or a list of mappings:
\* the response, or the ValueError of csv.DictWriter, whose message names the
\* wrong fields in the set iteration order `order`
response_csv(code, data, order) ==
    LET d1 == IF ~Truthy(data) THEN PyList(<<>>) ELSE data
        d2 == IF ~IsList(d1) THEN PyList(<<d1>>) ELSE d1
    IN  IF Truthy(d2)
        THEN LET headers == Keys(d2.v[1])
                 header_row == CsvRow([i \in 1..Len(headers) |-> PyStr(headers[i])])
                 written == WriteRows(headers, d2.v, header_row, order)
             IN  IF written.kind = "raise" THEN written
                 ELSE Return(Response(code, "", "text/csv", written.v))
        ELSE Return(Response(code, "", "text/csv", ""))

(***************************************************************************)
(* The argument normalizer.                                                *)
(***************************************************************************)
\* the two replacements in the other order: a tab ends as a space
AdjustValueSwapped(s) == Replace(Replace(Strip(s), " ", "_"), "\t", " ")

\* __v.strip().replace("\t", " ").replace(" ", "_")
AdjustValue(s) == Replace(Replace(Strip(s), "\t", " "), " ", "_")

\* the loop of _adjust_arguments over the keys of args
RECURSIVE AdjustPairs(_)
AdjustPairs(pairs) ==
    IF pairs = <<>> THEN <<>>
    ELSE LET k == Head(pairs)[1]
             x == Head(pairs)[2]
         IN  IF ~IsStr(x) THEN <<Head(pairs)>> \o AdjustPairs(Tail(pairs))
             ELSE IF AdjustValue(x.v) = "" THEN AdjustPairs(Tail(pairs))
                  ELSE <<<<k, PyStr(AdjustValue(x.v))>>>> \o AdjustPairs(Tail(pairs))

\* _adjust_arguments(args) for args None or a mapping
_adjust_arguments(args) ==
    IF ~Truthy(args) THEN args ELSE PyDict(AdjustPairs(args.v))

(***************************************************************************)
(* The route handlers.  A handler is an operator from the request and the  *)
(* outcomes of the collaborator calls it may make to                       *)
(*   [calls |-> the calls it made, in order, out |-> what it ends with],   *)
(* out being Return(response) or Raise(exception) when an exception        *)
(* leaves the handler.                                                     *)
(***************************************************************************)
\* one call of a collaborator method: its arguments and its outcome
Call(name, args, out) == [name |-> name, args |-> args, out |-> out]

\* no collaborator is constructed by the handler
NotBuilt == [kind |-> "none", v |-> PyNone]

Handled(made, out) == [calls |-> made, out |-> out, built |-> NotBuilt]

\* the handler constructed its collaborator with the outcome construct; an
\* exception of the constructor leaves the handler before any method call
Constructed(construct, h) ==
    IF construct.kind = "raise"
    THEN [calls |-> <<>>, out |-> construct, built |-> construct]
    ELSE [h EXCEPT !.built = construct]

\* the body {"result": text}
ResultBody(text) == PyDict(<< <<"result", PyStr(text)>> >>)

\* sub in s
Contains(s, sub) ==
    \E i \in 1..(Len(s) - Len(sub) + 1) : SubSeq(s, i, i + Len(sub) - 1) = sub

IndexIn(s, c) == CHOOSE i \in 1..Len(s) : CharAt(s, i) = c

\* ord(c) for the digits, the ASCII letters, the space, '-' and '_'
CharCode(c) ==
    CASE IsDigit(c) -> 47 + IndexIn(Digits, c)
      [] \E i \in 1..Len(Upper) : CharAt(Upper, i) = c -> 64 + IndexIn(Upper, c)
      [] \E i \in 1..Len(Lower) : CharAt(Lower, i) = c -> 96 + IndexIn(Lower, c)
      [] c = " " -> 32
      [] c = "-" -> 45
      [] c = "_" -> 95

\* a < b for Python strings: by code point, a proper prefix first
RECURSIVE StrLess(_, _)
StrLess(a, b) ==
    IF b = "" THEN FALSE
    ELSE IF a = "" THEN TRUE
    ELSE IF Head(a) = Head(b) THEN StrLess(Tail(a), Tail(b))
    ELSE CharCode(Head(a)) < CharCode(Head(b))

\* x put into the sorted sequence of strings, after its equals
RECURSIVE Insert(_, _)
Insert(sorted, x) ==
    IF sorted = <<>> THEN <<x>>
    ELSE IF StrLess(x.v, Head(sorted).v) THEN <<x>> \o sorted
    ELSE <<Head(sorted)>> \o Insert(Tail(sorted), x)

\* list.sort() of a list of strings
RECURSIVE SortStrs(_)
SortStrs(items) ==
    IF items = <<>> THEN <<>>
    ELSE Insert(SortStrs(SubSeq(items, 1, Len(items) - 1)), items[Len(items)])

\* get_client_list without the exception made for the rundeck rule
get_client_list_strict(rule, outcome) ==
    LET made == <<Call("get_clients", PyList(<<>>), outcome)>>
        rundeck == Contains(rule, "rundeck")
    IN  IF outcome.kind = "raise"
        THEN Handled(made, Return(response_json(500, ResultBody(ExcStr(outcome.v)))))
        ELSE IF ~Truthy(outcome.v)
        THEN Handled(made, Return(response_json(404, ResultBody("Client not found"))))
        ELSE Handled(made, Return(response_json(200,
                 IF rundeck THEN PyList(SortStrs(outcome.v.v)) ELSE outcome.v)))

\* get_client_list() under the rule /clients or /rundeck/clients
get_client_list(rule, outcome) ==
    LET made == <<Call("get_clients", PyList(<<>>), outcome)>>
        rundeck == Contains(rule, "rundeck")
    IN  IF outcome.kind = "raise"
        THEN Handled(made, Return(response_json(500, ResultBody(ExcStr(outcome.v)))))
        ELSE IF ~Truthy(outcome.v) /\ ~rundeck
        THEN Handled(made, Return(response_json(404, ResultBody("Client not found"))))
        ELSE LET client_list == IF ~Truthy(outcome.v) THEN PyList(<<>>) ELSE outcome.v
                 sorted == IF rundeck THEN PyList(SortStrs(client_list.v)) ELSE client_list
             IN  Handled(made, Return(response_json(200, sorted)))

\* get_client_lang_list() for the JSON body json
get_client_lang_list(json, outcome) ==
    LET made == <<Call("get_client_lang_list", PyList(<<json>>), outcome)>>
    IN  IF outcome.kind = "raise"
        THEN Handled(made, Return(response_json(500, ResultBody(ExcStr(outcome.v)))))
        ELSE IF ~Truthy(outcome.v)
        THEN Handled(made, Return(response_json(404, ResultBody("Client not found"))))
        ELSE Handled(made, Return(response_json(200, outcome.v)))

\* the csv flag of /deliveries: a string counts as true when it is '', 'yes' or 'true'
NeedCsv(json) ==
    LET need_csv == DictGet(json, "csv", PyBool(TRUE))
    IN  IF IsStr(need_csv)
        THEN PyBool(ToLower(Strip(need_csv.v)) \in {"", "yes", "true"})
        ELSE need_csv

\* the empty list tested before the error
DeliveriesStatusEmptyFirst(delivery_list, error) ==
    IF ~Truthy(delivery_list) THEN 404
    ELSE IF Truthy(error) THEN 500
    ELSE 201

\* what both deliveries handlers do with the pair the collaborator returned,
\* up to the choice of the encoder
DeliveriesStatus(delivery_list, error) ==
    IF ~Truthy(delivery_list) /\ ~Truthy(error) THEN 404
    ELSE IF Truthy(error) THEN 500
    ELSE 201

\* get_client_deliveries with the collaborator called before the client is tested
get_client_deliveries_late_check(json, outcome, order) ==
    LET timezone == PyOr(DictGet(json, "timezone", PyNone), PyStr("Etc/UTC"))
        need_csv == NeedCsv(json)
        client == DictGet(json, "client", PyNone)
        search_params == PyOr(DictGet(json, "search_params", PyNone), PyDict(<<>>))
        made == <<Call("get_deliveries",
                       PyList(<<client, search_params, timezone>>), outcome)>>
    IN  IF outcome.kind = "raise" THEN Handled(made, outcome)
        ELSE IF ~Truthy(client)
        THEN Handled(made, Return(response_json(400,
                                  ResultBody("Client code must be specified"))))
        ELSE LET delivery_list == outcome.v.v[1]
                 error == outcome.v.v[2]
                 status == DeliveriesStatus(delivery_list, error)
             IN  IF status = 404
                 THEN Handled(made, Return(response_json(404,
                          ResultBody("No deliveries found for client "
                                     \o PyToStr(client)))))
                 ELSE IF status = 500
                 THEN Handled(made, Return(response_json(500,
                          PyDict(<< <<"result", error>> >>))))
                 ELSE IF Truthy(need_csv)
                 THEN Handled(made, response_csv(201, delivery_list, order))
                 ELSE Handled(made, Return(response_json(201, delivery_list)))

\* get_client_deliveries() for the JSON body json (a mapping); order is the set
\* iteration order csv.DictWriter meets should a record hold wrong fields
get_client_deliveries(json, outcome, order) ==
    LET timezone == PyOr(DictGet(json, "timezone", PyNone), PyStr("Etc/UTC"))
        need_csv == NeedCsv(json)
        client == DictGet(json, "client", PyNone)
        search_params == PyOr(DictGet(json, "search_params", PyNone), PyDict(<<>>))
        made == <<Call("get_deliveries",
                       PyList(<<client, search_params, timezone>>), outcome)>>
    IN  IF ~Truthy(client)
        THEN Handled(<<>>, Return(response_json(400,
                                  ResultBody("Client code must be specified"))))
        ELSE IF outcome.kind = "raise" THEN Handled(made, outcome)
        ELSE LET delivery_list == outcome.v.v[1]
                 error == outcome.v.v[2]
                 status == DeliveriesStatus(delivery_list, error)
             IN  IF status = 404
                 THEN Handled(made, Return(response_json(404,
                          ResultBody("No deliveries found for client "
                                     \o PyToStr(client)))))
                 ELSE IF status = 500
                 THEN Handled(made, Return(response_json(500,
                          PyDict(<< <<"result", error>> >>))))
                 ELSE IF Truthy(need_csv)
                 THEN Handled(made, response_csv(201, delivery_list, order))
                 ELSE Handled(made, Return(response_json(201, delivery_list)))

\* get_client_deliveries_v2 with the collaborator called before the client is tested
get_client_deliveries_v2_late_check(json, outcome) ==
    LET timezone == PyOr(DictGet(json, "timezone", PyNone), PyStr("Etc/UTC"))
        client == DictGet(json, "client", PyNone)
        search_params == PyOr(DictGet(json, "search_params", PyNone), PyDict(<<>>))
        made == <<Call("get_deliveries_v2",
                       PyList(<<client, search_params, timezone>>), outcome)>>
    IN  IF outcome.kind = "raise" THEN Handled(made, outcome)
        ELSE IF ~Truthy(client)
        THEN Handled(made, Return(response_json(400,
                 PyStr("{\"result\": \"Client code must be specified\"}"))))
        ELSE LET delivery_list == outcome.v.v[1]
                 error == outcome.v.v[2]
                 status == DeliveriesStatus(delivery_list, error)
             IN  IF status = 404
                 THEN Handled(made, Return(response_json(404,
                          ResultBody("No deliveries found for client "
                                     \o PyToStr(client)))))
                 ELSE IF status = 500
                 THEN Handled(made, Return(response_json(500,
                          PyDict(<< <<"result", error>> >>))))
                 ELSE Handled(made, Return(response_json(201, delivery_list)))

\* get_client_deliveries_v2() for the JSON body json (a mapping)
get_client_deliveries_v2(json, outcome) ==
    LET timezone == PyOr(DictGet(json, "timezone", PyNone), PyStr("Etc/UTC"))
        client == DictGet(json, "client", PyNone)
        search_params == PyOr(DictGet(json, "search_params", PyNone), PyDict(<<>>))
        made == <<Call("get_deliveries_v2",
                       PyList(<<client, search_params, timezone>>), outcome)>>
    IN  IF ~Truthy(client)
        THEN Handled(<<>>, Return(response_json(400,
                 PyStr("{\"result\": \"Client code must be specified\"}"))))
        ELSE IF outcome.kind = "raise" THEN Handled(made, outcome)
        ELSE LET delivery_list == outcome.v.v[1]
                 error == outcome.v.v[2]
                 status == DeliveriesStatus(delivery_list, error)
             IN  IF status = 404
                 THEN Handled(made, Return(response_json(404,
                          ResultBody("No deliveries found for client "
                                     \o PyToStr(client)))))
                 ELSE IF status = 500
                 THEN Handled(made, Return(response_json(500,
                          PyDict(<< <<"result", error>> >>))))
                 ELSE Handled(made, Return(response_json(201, delivery_list)))

\* get_client_data without its try/except
get_client_data_uncaught(client_id, outcome) ==
    LET made == <<Call("get_client_data", PyList(<<PyInt(client_id)>>), outcome)>>
    IN  IF outcome.kind = "raise" THEN Handled(made, outcome)
        ELSE IF ~Truthy(outcome.v)
        THEN Handled(made, Return(response_json(404,
                 ResultBody("Client not found (id=[" \o IntToStr(client_id) \o "])"))))
        ELSE Handled(made, Return(response_json(200, outcome.v)))

\* get_client_data(client_id)
get_client_data(client_id, outcome) ==
    LET made == <<Call("get_client_data", PyList(<<PyInt(client_id)>>), outcome)>>
    IN  IF outcome.kind = "raise"
        THEN Handled(made, Return(response_json(500, ResultBody(ExcStr(outcome.v)))))
        ELSE IF ~Truthy(outcome.v)
        THEN Handled(made, Return(response_json(404,
                 ResultBody("Client not found (id=[" \o IntToStr(client_id) \o "])"))))
        ELSE Handled(made, Return(response_json(200, outcome.v)))

\* get_counterparty(client_code): ClientCounterparty() is constructed, then
\* asked; nothing is caught
get_counterparty(client_code, construct, outcome) ==
    Constructed(construct,
    LET made == <<Call("client_counterparty", PyList(<<PyStr(client_code)>>), outcome)>>
    IN  IF outcome.kind = "raise" THEN Handled(made, outcome)
        ELSE Handled(made, Return(response_json(200,
                 PyDict(<< <<client_code, outcome.v>> >>)))))

\* sync_customer_tf with get_client given the query arguments as they came
sync_customer_tf_raw_args(method, args, json, construct, mutation, lookup) ==
    Constructed(construct,
    LET _rq_json == _adjust_arguments(json)
        mutated == IF method \in {"PUT", "DELETE"}
                   THEN <<Call(ToLower(method) \o "_client", _rq_json, mutation)>>
                   ELSE <<>>
        made == Append(mutated, Call("get_client", args, lookup))
    IN  IF mutated # <<>> /\ mutation.kind = "raise"
        THEN Handled(mutated, Return(response_json(400,
                 ResultBody(ExcRepr(mutation.v)))))
        ELSE IF lookup.kind = "raise" THEN Handled(made, lookup)
        ELSE Handled(made, Return(response_json(
                 IF method = "PUT" THEN 201 ELSE 200, lookup.v))))

\* sync_customer_tf with str(_e) where the code has repr(_e)
sync_customer_tf_str_exc(method, args, json, construct, mutation, lookup) ==
    Constructed(construct,
    LET _rq_args == _adjust_arguments(args)
        _rq_json == _adjust_arguments(json)
        mutated == IF method \in {"PUT", "DELETE"}
                   THEN <<Call(ToLower(method) \o "_client", _rq_json, mutation)>>
                   ELSE <<>>
        made == Append(mutated, Call("get_client", _rq_args, lookup))
    IN  IF mutated # <<>> /\ mutation.kind = "raise"
        THEN Handled(mutated, Return(response_json(400,
                 ResultBody(ExcStr(mutation.v)))))
        ELSE IF lookup.kind = "raise" THEN Handled(made, lookup)
        ELSE Handled(made, Return(response_json(
                 IF method = "PUT" THEN 201 ELSE 200, lookup.v))))

\* sync_customer_tf() for the query arguments args and, under PUT and DELETE,
\* the JSON body json (a mapping); construct, mutation and lookup are the
\* outcomes of ClientTF(), of put_client/delete_client and of get_client
sync_customer_tf(method, args, json, construct, mutation, lookup) ==
    Constructed(construct,
    LET _rq_args == _adjust_arguments(args)
        _rq_json == _adjust_arguments(json)
        mutated == IF method \in {"PUT", "DELETE"}
                   THEN <<Call(ToLower(method) \o "_client", _rq_json, mutation)>>
                   ELSE <<>>
        made == Append(mutated, Call("get_client", _rq_args, lookup))
    IN  IF mutated # <<>> /\ mutation.kind = "raise"
        THEN Handled(mutated, Return(response_json(400,
                 ResultBody(ExcRepr(mutation.v)))))
        ELSE IF lookup.kind = "raise" THEN Handled(made, lookup)
        ELSE Handled(made, Return(response_json(
                 IF method = "PUT" THEN 201 ELSE 200, lookup.v))))

(***************************************************************************)
(* The requests and the collaborator outcomes the model draws from.        *)
(***************************************************************************)
\* a field the JSON body or the query string does not hold
Absent == [t |-> "absent", v |-> 0]

\* the mapping of the given <<key, value>> pairs, the absent ones left out
BuildDict(pairs) == PyDict(SelectSeq(pairs, LAMBDA p : p[2].t # "absent"))

Request(rule, method, args, json, path) ==
    [rule |-> rule, method |-> method, args |-> args, json |-> json, path |-> path]

NoRequest == Request("", "", PyNone, PyNone, PyNone)
NoResponse == [kind |-> "none", v |-> PyNone]

Exceptions ==
    {Exc("ValueError", "bad client code"), Exc("RuntimeError", ""), Exc("KeyError", "client's code")}
Raised == {Raise(e) : e \in Exceptions}

ClientLists ==
    {PyNone, PyList(<<>>), PyList(<<PyStr("ZED")>>),
     PyList(<<PyStr("beta"), PyStr("ACME"), PyStr("AC"), PyStr("Alpha")>>)}

LangRequests == {PyList(<<>>), PyList(<<PyStr("ACME"), PyStr("ZED")>>)}
LangMaps ==
    {PyNone, PyDict(<<>>), PyDict(<< <<"ACME", PyStr("en")>>, <<"ZED", PyStr("ru")>> >>)}

ClientFields == {Absent, PyNone, PyStr(""), PyInt(0), PyStr("ACME")}
TimezoneFields == {Absent, PyStr(""), PyStr("Europe/Oslo")}
CsvFields ==
    {Absent, PyBool(TRUE), PyBool(FALSE), PyStr("yes"), PyStr("no"),
     PyStr(" TRUE\n"), PyStr("")}
SearchFields == {Absent, PyDict(<< <<"status", PyStr("sent")>> >>)}

DeliveryBodies ==
    {BuildDict(<< <<"timezone", tz>>, <<"csv", c>>, <<"client", cl>>,
                  <<"search_params", sp>> >>) :
        tz \in TimezoneFields, c \in CsvFields, cl \in ClientFields, sp \in SearchFields}

DeliveryBodiesV2 ==
    {BuildDict(<< <<"timezone", tz>>, <<"client", cl>>, <<"search_params", sp>> >>) :
        tz \in TimezoneFields, cl \in ClientFields, sp \in SearchFields}

Delivery1 == PyDict(<< <<"id", PyInt(1)>>, <<"name", PyStr("box")>> >>)
Delivery2 == PyDict(<< <<"id", PyInt(12)>>, <<"name", PyStr("a,\"b\"")>> >>)
Delivery3 == PyDict(<< <<"id", PyInt(3)>>, <<"extra", PyStr("y")>> >>)
Delivery4 == PyDict(<< <<"driver's \"note\"", PyStr("n")>>, <<"id", PyInt(4)>>, <<"extra", PyStr("y")>> >>)

DeliveryLists ==
    {PyNone, PyList(<<>>), PyList(<<Delivery1>>), PyList(<<Delivery1, Delivery2>>),
     PyList(<<Delivery1, Delivery3>>), PyList(<<Delivery1, Delivery4>>)}
DeliveryErrors == {PyNone, PyStr(""), PyStr("db error")}
DeliveryOutcomes ==
    {Return(PyTuple(<<dl, err>>)) : dl \in DeliveryLists, err \in DeliveryErrors}
    \cup Raised

\* the set iteration orders csv.DictWriter may meet on the records returned
OutcomeOrders(outcome) ==
    IF outcome.kind = "return" THEN Perms(DataKeys(outcome.v.v[1])) ELSE {<<>>}

ClientIds == {0, 42}
ClientData == {PyNone, PyDict(<<>>), PyDict(<< <<"code", PyStr("ACME")>> >>)}

ClientCodes == {"ACME", "a b"}
Counterparties == {PyNone, PyStr("ACME Ltd"), PyList(<<>>)}

Methods == {"GET", "PUT", "DELETE"}
QueryArgs ==
    {BuildDict(<< <<"code", c>>, <<"name", n>> >>) :
        c \in {Absent, PyStr("ABC"), PyStr(" A\tB "), PyStr(" ")},
        n \in {Absent, PyStr("big client")}}
SyncBodies ==
    {BuildDict(<< <<"code", c>>, <<"active", a>> >>) :
        c \in {Absent, PyStr("ABC"), PyStr("\tA B")},
        a \in {Absent, PyBool(TRUE)}}
\* ClientCounterparty() and ClientTF(): the object, or the constructor's exception
Constructions == {Return(PyNone)} \cup Raised
Mutations == {Return(PyNone)} \cup Raised
Lookups ==
    {Return(PyDict(<<>>)), Return(PyDict(<< <<"ABC", PyStr("big_client")>> >>))}
    \cup Raised

(***************************************************************************)
(* The service: one request at a time, from its arrival to its response.   *)
(* hist notes, for every request served, whether it was a PUT on           *)
(* /sync_customer_tf answered 400 or 201; the handlers never read it.      *)
(***************************************************************************)
Tag(r, out) ==
    IF r.rule = "/sync_customer_tf" /\ r.method = "PUT" /\ out.kind = "return"
    THEN (IF out.v.status = 400 THEN "put_failed" ELSE "put_ok")
    ELSE "other"

Idle == resp.kind = "none" /\ Len(hist) < MaxRequests

\* the request r is handled with the result h of its handler
Serve(r, h) ==
    /\ req' = r
    /\ calls' = h.calls
    /\ built' = h.built
    /\ resp' = h.out
    /\ hist' = Append(hist, Tag(r, h.out))
    /\ UNCHANGED <<fin, fout>>

Init ==
    /\ req = NoRequest
    /\ calls = <<>>
    /\ built = NotBuilt
    /\ resp = NoResponse
    /\ hist = <<>>
    /\ fin = PyNone
    /\ fout = <<>>

GetClientList ==
    /\ Idle
    /\ \E rule \in {"/clients", "/rundeck/clients"},
          outcome \in {Return(l) : l \in ClientLists} \cup Raised :
            Serve(Request(rule, "GET", PyNone, PyNone, PyNone),
                  get_client_list(rule, outcome))

GetClientLangList ==
    /\ Idle
    /\ \E json \in LangRequests, outcome \in {Return(m) : m \in LangMaps} \cup Raised :
            Serve(Request("/client_lang", "POST", PyNone, json, PyNone),
                  get_client_lang_list(json, outcome))

GetClientDeliveries ==
    /\ Idle
    /\ \E json \in DeliveryBodies, outcome \in DeliveryOutcomes :
         \E order \in OutcomeOrders(outcome) :
            Serve(Request("/deliveries", "POST", PyNone, json, PyNone),
                  get_client_deliveries(json, outcome, order))

GetClientDeliveriesV2 ==
    /\ Idle
    /\ \E json \in DeliveryBodiesV2, outcome \in DeliveryOutcomes :
            Serve(Request("/v2/deliveries", "POST", PyNone, json, PyNone),
                  get_client_deliveries_v2(json, outcome))

GetClientData ==
    /\ Idle
    /\ \E client_id \in ClientIds, outcome \in {Return(d) : d \in ClientData} \cup Raised :
            Serve(Request("/get_client_data/<int:client_id>", "GET", PyNone, PyNone,
                          PyInt(client_id)),
                  get_client_data(client_id, outcome))

GetCounterparty ==
    /\ Idle
    /\ \E client_code \in ClientCodes, construct \in Constructions,
          outcome \in {Return(c) : c \in Counterparties} \cup Raised :
            Serve(Request("/client_counterparty/<string:client_code>", "GET", PyNone,
                          PyNone, PyStr(client_code)),
                  get_counterparty(client_code, construct, outcome))

SyncCustomerTf ==
    /\ Idle
    /\ \E method \in Methods, args \in QueryArgs, json \in SyncBodies,
          construct \in Constructions, mutation \in Mutations, lookup \in Lookups :
            Serve(Request("/sync_customer_tf", method, args,
                          IF method = "GET" THEN PyNone ELSE json, PyNone),
                  sync_customer_tf(method, args, json, construct, mutation, lookup))

\* the response (or the exception) has left the handler: the next request may come
RequestDone ==
    /\ resp.kind # "none"
    /\ req' = NoRequest
    /\ calls' = <<>>
    /\ built' = NotBuilt
    /\ resp' = NoResponse
    /\ UNCHANGED <<hist, fin, fout>>

Next ==
    \/ GetClientList
    \/ GetClientLangList
    \/ GetClientDeliveries
    \/ GetClientDeliveriesV2
    \/ GetClientData
    \/ GetCounterparty
    \/ SyncCustomerTf
    \/ RequestDone

Spec == Init /\ [][Next]_vars

(***************************************************************************)
(* The helpers on their own: fin is the input, fout the outputs so far.    *)
(***************************************************************************)
NoService ==
    /\ req = NoRequest
    /\ calls = <<>>
    /\ built = NotBuilt
    /\ resp = NoResponse
    /\ hist = <<>>

\* the strings of at most n characters of chars
RECURSIVE StrsUpTo(_, _)
StrsUpTo(chars, n) ==
    IF n = 0 THEN {""}
    ELSE LET shorter == StrsUpTo(chars, n - 1)
         IN  shorter \cup {s \o c : s \in shorter, c \in chars}

\* the sequences of at most n elements of S
RECURSIVE SeqsUpTo(_, _)
SeqsUpTo(S, n) ==
    IF n = 0 THEN {<<>>}
    ELSE LET shorter == SeqsUpTo(S, n - 1)
         IN  shorter \cup {Append(q, x) : q \in shorter, x \in S}

AdjustChars == {" ", "\t", "\n", "a"}
AdjustOthers == {PyNone, PyInt(7), PyBool(FALSE), PyList(<<PyStr(" x\t")>>)}
AdjustInputs ==
    {PyNone}
    \cup {BuildDict(<< <<"code", c>>, <<"name", n>> >>) :
            c \in {Absent} \cup AdjustOthers
                  \cup {PyStr(s) : s \in StrsUpTo(AdjustChars, MaxStrLen)},
            n \in {Absent, PyStr(" big\tclient "), PyStr("\t"), PyInt(0)}}

InitAdjust == NoService /\ fin \in AdjustInputs /\ fout = <<>>

\* _adjust_arguments applied to the input, then to its own output
ApplyAdjust ==
    /\ Len(fout) < MaxApply
    /\ fout' = Append(fout, _adjust_arguments(IF fout = <<>> THEN fin
                                              ELSE fout[Len(fout)]))
    /\ UNCHANGED <<req, calls, built, resp, hist, fin>>

SpecAdjust == InitAdjust /\ [][ApplyAdjust]_vars

Codes == {200, 201}

CsvValues == {PyStr("x"), PyStr(""), PyStr("p,\"q"), PyInt(1)}
CsvRecords ==
    {PyDict(<<>>)}
    \cup {PyDict(<< <<k, x>> >>) : k \in {"a", "b"}, x \in CsvValues}
    \cup {PyDict(<< <<k[1], x>>, <<k[2], y>> >>) :
            k \in {<<"a", "b">>, <<"b", "a">>}, x \in CsvValues, y \in CsvValues}
CsvInputs ==
    {PyNone} \cup CsvRecords \cup {PyList(q) : q \in SeqsUpTo(CsvRecords, MaxRecords)}

InitCsv ==
    /\ NoService
    /\ fin \in {[code |-> c, data |-> d] : c \in Codes, d \in CsvInputs}
    /\ fout = <<>>

ApplyCsv ==
    /\ fout = <<>>
    /\ \E order \in Perms(DataKeys(fin.data)) :
         fout' = <<response_csv(fin.code, fin.data, order)>>
    /\ UNCHANGED <<req, calls, built, resp, hist, fin>>

SpecCsv == InitCsv /\ [][ApplyCsv]_vars

JsonStrings ==
    {"", "a", "1", "null", "a\"b\\c", "t\tn\n", "f\fr\r", "[]", " \"s\" ",
     "{\"result\": \"Client code must be specified\"}"}
\* 0.0, -0.0, 1.5, 100.0, 1e-05, 1.25e+16, the greatest float of FloatDig
\* digits, inf, -inf and nan
JsonFloats ==
    {FloatZero(FALSE), FloatZero(TRUE), Finite(FALSE, "15", 1), Finite(TRUE, "1", 3),
     Finite(FALSE, "1", -4), Finite(FALSE, "125", 17), Finite(FALSE, MaxFloatDigits, 309),
     Infinity(FALSE), Infinity(TRUE), NaN}
JsonScalars ==
    {PyNone, PyBool(TRUE), PyBool(FALSE), PyInt(0), PyInt(-7), PyInt(120)}
    \cup {PyStr(s) : s \in JsonStrings}
    \cup {PyFloat(f) : f \in JsonFloats}
JsonElems ==
    {PyNone, PyBool(TRUE), PyInt(-7), PyStr("a\"b\\c"), PyStr("1"),
     PyStr("caf" \o Chr(233) \o Chr(8) \o Chr(127)),
     PyFloat(Finite(FALSE, "15", 1)), PyFloat(Finite(FALSE, "1", -4)), PyFloat(NaN),
     PyList(<<>>), PyList(<<PyInt(1), PyStr("t\tn\n\r\f")>>), PyTuple(<<PyInt(1)>>),
     PyDict(<< <<"k", PyStr("v")>> >>)}
JsonInputs ==
    JsonScalars
    \cup {PyTuple(<<>>), PyTuple(<<PyInt(1), PyFloat(Finite(FALSE, "15", 1))>>)}
    \cup {PyList(q) : q \in SeqsUpTo(JsonElems, MaxListLen)}
    \cup {PyDict(<<>>)}
    \cup {PyDict(<< <<k, x>> >>) : k \in {"result", "a\"k"}, x \in JsonElems}
    \cup {PyDict(<< <<"result", x>>, <<"k", y>> >>) : x \in JsonElems, y \in JsonElems}

InitJson ==
    /\ NoService
    /\ fin \in {[code |-> c, data |-> d] : c \in Codes, d \in JsonInputs}
    /\ fout = <<>>

ApplyJson ==
    /\ fout = <<>>
    /\ fout' = <<response_json(fin.code, fin.data)>>
    /\ UNCHANGED <<req, calls, built, resp, hist, fin>>

SpecJson == InitJson /\ [][ApplyJson]_vars

(***************************************************************************)
(* The properties.                                                         *)
(***************************************************************************)
\* a request has been handled: resp is its response or the exception that left
Served == resp.kind # "none"
Answered == resp.kind = "return"
OnDeliveries == req.rule \in {"/deliveries", "/v2/deliveries"}
OnClients == req.rule \in {"/clients", "/rundeck/clients"}
OnSync == req.rule = "/sync_customer_tf"
NoClient == ~Truthy(DictGet(req.json, "client", PyNone))
LastCall == calls[Len(calls)]
\* the body response_json gives the value x
JsonBody(x) == IF IsStr(x) THEN x.v ELSE Dumps(x)

\* C1: on /deliveries and /v2/deliveries a body without a (truthy) client is
\* answered 400 and no collaborator method has been called, whatever timezone,
\* search_params and csv are.
C1_NoClientIs400WithoutCall ==
    (Served /\ OnDeliveries /\ NoClient)
        => (Answered /\ resp.v.status = 400 /\ calls = <<>>)

C1_Witness ==
    /\ Served /\ req.rule = "/deliveries"
    /\ ~HasKey(req.json, "client")
    /\ HasKey(req.json, "timezone") /\ HasKey(req.json, "search_params")
    /\ HasKey(req.json, "csv")
    /\ Answered /\ resp.v.status = 400 /\ calls = <<>>

\* the pair (data, error) the deliveries collaborator returned
PairReturned ==
    Served /\ OnDeliveries /\ calls # <<>> /\ calls[1].out.kind = "return"
ReturnedData == calls[1].out.v.v[1]
ReturnedError == calls[1].out.v.v[2]

\* C2 as stated: on the deliveries routes every non-null error of the returned
\* pair, the empty string included, gives status 500 whatever the data is.
C2_NonNullErrorIs500 ==
    (PairReturned /\ ReturnedError.t # "none")
        => (Answered /\ resp.v.status = 500)

\* C2 amended: every truthy (non-null and non-empty) error gives status 500
\* with {"result": error} whatever the data is; the empty error string counts
\* as no error and never gives 500.
C2_TruthyErrorIs500 ==
    /\ (PairReturned /\ Truthy(ReturnedError))
         => /\ Answered /\ resp.v.status = 500
            /\ resp.v.body = Dumps(PyDict(<< <<"result", ReturnedError>> >>))
    /\ (PairReturned /\ ~Truthy(ReturnedError))
         => ~(Answered /\ resp.v.status = 500)

C2_Witness ==
    /\ PairReturned /\ Truthy(ReturnedError) /\ Truthy(ReturnedData)
    /\ Answered /\ resp.v.status = 500

\* a collaborator call of the request raised
SomeCallRaised == \E i \in 1..Len(calls) : calls[i].out.kind = "raise"
RaisedCall == calls[CHOOSE i \in 1..Len(calls) : calls[i].out.kind = "raise"]
OnCounterparty == req.rule = "/client_counterparty/<string:client_code>"

\* C3 as stated: outside /client_counterparty an exception raised by any
\* collaborator call is answered 500 with str(exception) as result; it never
\* leaves the handler and never gives another status.
C3_EveryExceptionIs500 ==
    (Served /\ ~OnCounterparty /\ SomeCallRaised)
        => /\ Answered /\ resp.v.status = 500
           /\ resp.v.body = Dumps(ResultBody(ExcStr(RaisedCall.out.v)))

\* C3 amended: an exception of get_clients, get_client_lang_list or
\* get_client_data is answered 500 with str(exception) as result; one of
\* put_client or delete_client is answered 400 with repr(exception); one of
\* get_deliveries, get_deliveries_v2 or get_client leaves the handler, and so
\* does one of the ClientTF() constructor, before any call is made.
C3_ExceptionsByCollaborator ==
    /\ (Served /\ OnSync /\ built.kind = "raise") => (calls = <<>> /\ resp = built)
    /\ (Served /\ ~OnCounterparty /\ SomeCallRaised)
        => LET c == RaisedCall
           IN  /\ c.name \in {"get_clients", "get_client_lang_list", "get_client_data"}
                    => /\ Answered /\ resp.v.status = 500
                       /\ resp.v.body = Dumps(ResultBody(ExcStr(c.out.v)))
               /\ c.name \in {"put_client", "delete_client"}
                    => /\ Answered /\ resp.v.status = 400
                       /\ resp.v.body = Dumps(ResultBody(ExcRepr(c.out.v)))
               /\ c.name \in {"get_deliveries", "get_deliveries_v2", "get_client"}
                    => resp = c.out

C3_Witness ==
    /\ Served /\ req.rule = "/get_client_data/<int:client_id>"
    /\ SomeCallRaised /\ Answered /\ resp.v.status = 500
    /\ resp.v.body = "{\"result\": \"bad client code\"}"

Mutating == req.method \in {"PUT", "DELETE"}
\* the request ends with get_client(normalized query args), whose result, when
\* it returns one, is the body
EndsWithLookup ==
    /\ calls # <<>>
    /\ LastCall.name = "get_client"
    /\ LastCall.args = _adjust_arguments(req.args)
    /\ LastCall.out.kind = "return"
         => (Answered /\ resp.v.body = JsonBody(LastCall.out.v))

\* C4 as stated: every request to /sync_customer_tf, whatever the method and
\* the outcome of the mutation call, ends with get_client(normalized query
\* args) after any mutation call, and the body is that call's result (taken
\* with ClientTF() constructed).
C4_AlwaysEndsWithLookup ==
    (Served /\ OnSync /\ built.kind = "return") => EndsWithLookup

\* C4 amended: a GET, and a PUT or DELETE whose mutation call does not raise,
\* ends with get_client(normalized query args), made after the mutation call
\* (given the normalized JSON body), and the body is that call's result; when
\* the mutation call raises it is the only call and the answer is 400; when
\* the ClientTF() constructor raises no call is made and the exception leaves
\* the handler.
C4_EndsWithLookupUnlessMutationRaises ==
    (Served /\ OnSync)
        => IF built.kind = "raise" THEN calls = <<>> /\ resp = built
           ELSE IF Mutating /\ calls[1].out.kind = "raise"
           THEN /\ Len(calls) = 1
                /\ calls[1].name = ToLower(req.method) \o "_client"
                /\ Answered /\ resp.v.status = 400
           ELSE /\ EndsWithLookup
                /\ Len(calls) = (IF Mutating THEN 2 ELSE 1)
                /\ Mutating
                     => /\ calls[1].name = ToLower(req.method) \o "_client"
                        /\ calls[1].args = _adjust_arguments(req.json)
                /\ LastCall.out.kind = "return"
                     => resp.v.status = (IF req.method = "PUT" THEN 201 ELSE 200)

C4_Witness ==
    /\ Served /\ OnSync /\ req.method = "DELETE" /\ Len(calls) = 2
    /\ built.kind = "return"
    /\ calls[1].name = "delete_client" /\ calls[1].out.kind = "return"
    /\ req.args = PyDict(<< <<"code", PyStr(" A\tB ")>>, <<"name", PyStr("big client")>> >>)
    /\ calls[2].args = PyDict(<< <<"code", PyStr("A_B")>>, <<"name", PyStr("big_client")>> >>)
    /\ Answered /\ resp.v.status = 200
    /\ resp.v.body = "{\"ABC\": \"big_client\"}"

\* C5: in any sequence of PUT /sync_customer_tf requests, one whose put_client
\* raises is answered 400 with repr(exception) as result, and one whose
\* put_client succeeds is answered 201 with the result of get_client(normalized
\* query args) as body, whatever came before (hist).
C5_PutAnswerPerRequest ==
    (Served /\ OnSync /\ req.method = "PUT" /\ built.kind = "return")
        => /\ calls # <<>> /\ calls[1].name = "put_client"
           /\ calls[1].out.kind = "raise"
                => /\ Answered /\ resp.v.status = 400
                   /\ resp.v.body = Dumps(ResultBody(ExcRepr(calls[1].out.v)))
                   /\ hist[Len(hist)] = "put_failed"
           /\ (calls[1].out.kind = "return" /\ Len(calls) = 2
               /\ calls[2].out.kind = "return")
                => /\ calls[2].name = "get_client"
                   /\ calls[2].args = _adjust_arguments(req.args)
                   /\ Answered /\ resp.v.status = 201
                   /\ resp.v.body = JsonBody(calls[2].out.v)
                   /\ hist[Len(hist)] = "put_ok"
           /\ calls[1].out.kind = "return" => Len(calls) = 2

C5_Witness ==
    /\ Served /\ OnSync /\ req.method = "PUT"
    /\ hist = <<"put_failed", "put_ok">>
    /\ Answered /\ resp.v.status = 201
    /\ resp.v.body = "{\"ABC\": \"big_client\"}"

\* C6 as stated: every handled request has called exactly one collaborator
\* method.
C6_ExactlyOneCall ==
    Served => Len(calls) = 1

\* C6 amended: a handled request has called exactly one collaborator method,
\* except that a deliveries request without a client has called none, a
\* request whose collaborator could not be constructed has called none, and a
\* PUT or DELETE on /sync_customer_tf whose mutation call did not raise has
\* called two (the mutation, then get_client).
C6_CallCount ==
    Served
        => Len(calls) = (IF OnDeliveries /\ NoClient THEN 0
                         ELSE IF built.kind = "raise" THEN 0
                         ELSE IF OnSync /\ Mutating /\ Len(calls) > 0
                                 /\ calls[1].out.kind = "return" THEN 2
                         ELSE 1)

C6_Witness ==
    /\ Served /\ OnSync /\ req.method = "PUT" /\ Len(calls) = 2
    /\ calls[1].name = "put_client" /\ calls[2].name = "get_client"

\* C7: when get_clients() returns an empty or falsy list, /clients answers 404
\* with {"result": "Client not found"} and /rundeck/clients answers 200 with
\* the body []; when it returns a non-empty list both answer 200.
C7_EmptyClientList ==
    (Served /\ OnClients /\ calls[1].out.kind = "return")
        => IF Truthy(calls[1].out.v)
           THEN Answered /\ resp.v.status = 200
           ELSE IF req.rule = "/clients"
           THEN /\ Answered /\ resp.v.status = 404
                /\ resp.v.body = "{\"result\": \"Client not found\"}"
           ELSE /\ Answered /\ resp.v.status = 200
                /\ resp.v.body = "[]"

C7_Witness ==
    /\ Served /\ req.rule = "/rundeck/clients"
    /\ calls[1].out = Return(PyList(<<>>))
    /\ Answered /\ resp.v.status = 200 /\ resp.v.body = "[]"

HasBlank(s) == \E i \in 1..Len(s) : CharAt(s, i) \in {" ", "\t"}

\* C8: _adjust_arguments(m) is a fixed point of _adjust_arguments, no string
\* value of it holds a tab or a space or is empty, and every non-string value
\* of m is kept under its key unchanged.
C8_AdjustFixedPoint ==
    /\ \A i \in 2..Len(fout) : fout[i] = fout[i - 1]
    /\ (fout # <<>> /\ fin.t = "dict")
         => /\ fout[1].t = "dict"
            /\ \A j \in 1..Len(fout[1].v) :
                 IsStr(fout[1].v[j][2])
                   => (fout[1].v[j][2].v # "" /\ ~HasBlank(fout[1].v[j][2].v))
            /\ \A j \in 1..Len(fin.v) :
                 ~IsStr(fin.v[j][2])
                   => /\ HasKey(fout[1], fin.v[j][1])
                      /\ DictGet(fout[1], fin.v[j][1], Absent) = fin.v[j][2]
    /\ (fout # <<>> /\ fin.t = "none") => fout[1] = PyNone

C8_Witness ==
    /\ Len(fout) = 2
    /\ fin = PyDict(<< <<"code", PyStr("a\ta")>>, <<"name", PyInt(0)>> >>)
    /\ fout[2] = PyDict(<< <<"code", PyStr("a_a")>>, <<"name", PyInt(0)>> >>)

\* the body of an encoder's outcome, when it returned a response
BodyIs(out, body) == out.kind = "return" /\ out.v.body = body
SameBody(a, b) == a.kind = "return" /\ b.kind = "return" /\ a.v.body = b.v.body

\* C9 as stated: for every mapping d, the empty one included, response_csv(code, d)
\* has the body of response_csv(code, [d]); None and [] both give an empty body.
C9_SingleSameAsList ==
    fout # <<>>
        => /\ fin.data.t = "dict"
                => \A order \in Perms(DataKeys(fin.data)) :
                     SameBody(fout[1], response_csv(fin.code, PyList(<<fin.data>>), order))
           /\ fin.data \in {PyNone, PyList(<<>>)} => BodyIs(fout[1], "")

\* C9 amended: for every non-empty mapping d, response_csv(code, d) has the
\* body of response_csv(code, [d]); None, [] and the empty mapping give an
\* empty body, while the list holding the empty mapping gives two empty lines.
C9_NonEmptySingleSameAsList ==
    fout # <<>>
        => /\ (fin.data.t = "dict" /\ Truthy(fin.data))
                => /\ \A order \in Perms(DataKeys(fin.data)) :
                        SameBody(fout[1],
                                 response_csv(fin.code, PyList(<<fin.data>>), order))
                   /\ fout[1].v.body # ""
           /\ fin.data \in {PyNone, PyList(<<>>), PyDict(<<>>)} => BodyIs(fout[1], "")
           /\ fin.data = PyList(<<PyDict(<<>>)>>) => BodyIs(fout[1], "\r\n\r\n")

C9_Witness ==
    /\ fout # <<>>
    /\ fin.data = PyDict(<< <<"b", PyStr("p,\"q")>>, <<"a", PyInt(1)>> >>)
    /\ BodyIs(fout[1], "b,a\r\n\"p,\"\"q\",1\r\n")

\* x is a NaN or holds one; x is a tuple or holds one
RECURSIVE HoldsNaN(_)
HoldsNaN(x) ==
    CASE x.t = "float" -> x.v = NaN
      [] x.t \in {"list", "tuple"} -> \E i \in 1..Len(x.v) : HoldsNaN(x.v[i])
      [] x.t = "dict" -> \E i \in 1..Len(x.v) : HoldsNaN(x.v[i][2])
      [] OTHER -> FALSE

RECURSIVE HoldsTuple(_)
HoldsTuple(x) ==
    CASE x.t = "tuple" -> TRUE
      [] x.t = "list" -> \E i \in 1..Len(x.v) : HoldsTuple(x.v[i])
      [] x.t = "dict" -> \E i \in 1..Len(x.v) : HoldsTuple(x.v[i][2])
      [] OTHER -> FALSE

\* float(x) of a bool or an int, x of a float
AsFloat(x) ==
    LET n == IF x.t = "bool" THEN (IF x.v THEN 1 ELSE 0) ELSE x.v
        abs == NatToStr(IF n < 0 THEN 0 - n ELSE n)
    IN  CASE x.t = "float" -> x.v
          [] x.t \in {"bool", "int"} /\ n = 0 -> FloatZero(FALSE)
          [] x.t \in {"bool", "int"} /\ n # 0 -> Finite(n < 0, StripTrailZeros(abs), Len(abs))

\* x == y of Python, between a decoded value x and the value y that was
\* encoded: numbers by their value whatever their type, a NaN equal to
\* nothing, lists and tuples element by element and never one to the other,
\* mappings key by key
RECURSIVE PyEq(_, _)
PyEq(x, y) ==
    CASE x.t \in {"bool", "int", "float"} /\ y.t \in {"bool", "int", "float"} ->
            /\ AsFloat(x) # NaN /\ AsFloat(y) # NaN
            /\ \/ AsFloat(x) = AsFloat(y)
               \/ AsFloat(x).digits = "" /\ AsFloat(y).digits = ""
                  /\ AsFloat(x).k = "finite" /\ AsFloat(y).k = "finite"
      [] x.t = y.t /\ x.t \in {"none", "str"} -> x.v = y.v
      [] x.t = y.t /\ x.t \in {"list", "tuple"} ->
            /\ Len(x.v) = Len(y.v)
            /\ \A i \in 1..Len(x.v) : PyEq(x.v[i], y.v[i])
      [] x.t = y.t /\ x.t = "dict" ->
            /\ Len(x.v) = Len(y.v)
            /\ \A i \in 1..Len(x.v) :
                 /\ HasKey(y, x.v[i][1])
                 /\ PyEq(x.v[i][2], DictGet(y, x.v[i][1], PyNone))
      [] OTHER -> FALSE

\* decoding the body of the response gives back the value it was made of
Decoded == Loads(fout[1].body)
RoundTrips == Decoded.kind = "return" /\ PyEq(Decoded.v, fin.data)

\* C10 as stated: for every JSON-serializable value v, strings included,
\* decoding the body of response_json(code, v) returns v.
C10_RoundTrip ==
    fout # <<>> => RoundTrips

\* C10 amended: for every value v that is not a string and holds no NaN and no
\* tuple (null, a boolean, an integer, a float, a list or a string-keyed
\* mapping of such values and of strings), decoding the body of
\* response_json(code, v) returns v, of the same types.  A string v is sent as
\* it is, not JSON-encoded, and does not decode to itself; a NaN is decoded as
\* a NaN, which equals no value, and a tuple as a list, which does not equal it.
C10_RoundTripUnlessString ==
    fout # <<>>
        => /\ (~IsStr(fin.data) /\ ~HoldsNaN(fin.data) /\ ~HoldsTuple(fin.data))
                => Decoded = Return(fin.data) /\ RoundTrips
           /\ IsStr(fin.data) => fout[1].body = fin.data.v /\ ~RoundTrips
           /\ (~IsStr(fin.data) /\ (HoldsNaN(fin.data) \/ HoldsTuple(fin.data)))
                => Decoded.kind = "return" /\ ~RoundTrips
           /\ fout[1].content_type = "application/json"
           /\ fout[1].mimetype = "application/json"

C10_Witness ==
    /\ fout # <<>>
    /\ fin.data = PyList(<<PyStr("caf" \o Chr(233) \o Chr(8) \o Chr(127)),
                           PyFloat(Finite(FALSE, "1", -4))>>)
    /\ fout[1].body = "[\"caf\\u00e9\\b\\u007f\", 1e-05]"
    /\ Decoded = Return(fin.data)

====
